---- MODULE Spec2Model ----
(***************************************************************************)
(* QtCast: the transcode-and-stream pipeline.                              *)
(*   qtcast/transcoder.py  Transcoder (job): plan, encoder process,        *)
(*                         monitor thread, wait_for_byte, destroy          *)
(*   qtcast/webserver.py   GET /media handler                              *)
(*   qtcast/main.py        QtCastWindow: the job table files_data, file    *)
(*                         selection, job creation, removal, prefetch      *)
(*   qtcast/devices.py     the capability registry                         *)
(***************************************************************************)
EXTENDS Integers, Sequences, FiniteSets, TLC

VARIABLES
    cast,                \* QtCastWindow.cast              (main.py:279)
    files_data,          \* QtCastWindow.files_data        (main.py:282)
    fmds,                \* the FileMetadata objects        (main.py:149-162)
    current_file,        \* QtCastWindow.current_file      (main.py:284)
    current_transcoder,  \* QtCastWindow.current_transcoder (main.py:285)
    video_stream,        \* QtCastWindow.video_stream      (main.py:287)
    audio_stream,        \* QtCastWindow.audio_stream      (main.py:288)
    audio_combo,         \* the fmd whose stream pairs fill audio_combo
    pendingUi,           \* _load_file_data threads / queued file_ui_ready
    pendingComplete,     \* queued transcode_completed deliveries
    closed,              \* closeEvent has run
    jobs,                \* the Transcoder objects, in creation order
    proc,                \* the encoder processes (OS side), one per job
    mon,                 \* the monitor threads, one per job
    disk,                \* files that exist on disk: temp paths, ffmpeg
    reqs                 \* GET /media requests being handled

vars == <<cast, files_data, fmds, current_file, current_transcoder,
          video_stream, audio_stream, audio_combo, pendingUi,
          pendingComplete, closed, jobs, proc, mon, disk, reqs>>

coordVars == <<cast, files_data, fmds, current_file, current_transcoder,
               video_stream, audio_stream, audio_combo, pendingUi, closed>>

(***************************************************************************)
(* Bounds of the model.                                                    *)
(***************************************************************************)
MaxJobs == 2
MaxFmds == 1
MaxReqs == 1
MaxPolls == 1
MaxPipe == 1
NPaths == 2

(***************************************************************************)
(* Program constants.                                                      *)
(***************************************************************************)
buffer == 134217728
KiB == 1024

(***************************************************************************)
(* File names are kept as their dot-separated components, so that          *)
(* fn.lower().split(".")[-1] is computed, not assumed.                     *)
(***************************************************************************)
Lower(s) ==
    CASE s = "MP4" -> "mp4"
      [] s = "MKV" -> "mkv"
      [] s = "Movie" -> "movie"
      [] OTHER -> s

Extension(fn) == Lower(fn[Len(fn)])

Files == { <<"movie", "mp4">>, <<"show", "mkv">>, <<"Movie", "MP4">> }

NoFile == << >>

(***************************************************************************)
(* Stream descriptors, as the prober delivers them.  A descriptor is       *)
(* identified by its owning file, its kind and its position in the list.   *)
(***************************************************************************)
\* Files named after what the prober finds in them: video codec, audio
\* codec ("none" for a file without audio), channel count and extension,
\* as in hevc.ac3.6ch.mp4.
PlanVideoCodecs == {"h264", "h265", "hevc", "vp9", "mjpeg"}
PlanAudioCodecs == {"aac", "mp3", "ac3", "eac3", "dts", "opus"}
PlanChannels == {"2ch", "3ch", "6ch"}
PlanExtensions == {"mp4", "mkv", "avi", "webm", "aac", "mp3", "wav"}

PlanFiles ==
    { <<v, a, ch, ext>> : v \in PlanVideoCodecs, a \in PlanAudioCodecs,
                          ch \in PlanChannels, ext \in PlanExtensions }
    \cup { <<v, "none", "0ch", ext>> : v \in PlanVideoCodecs,
                                       ext \in PlanExtensions }

ChannelCount(ch) ==
    CASE ch = "2ch" -> 2
      [] ch = "3ch" -> 3
      [] ch = "6ch" -> 6
      [] OTHER -> 0

VideoCodecs(fn) ==
    CASE fn = <<"movie", "mp4">> -> <<"hevc">>
      [] fn = <<"show", "mkv">>  -> <<"h264">>
      [] fn = <<"Movie", "MP4">> -> <<"h264">>
      [] fn = <<"silent", "mkv">> -> <<"h264">>
      [] Len(fn) = 4 -> << fn[1] >>
      [] OTHER -> << >>

AudioCodecs(fn) ==
    CASE fn = <<"movie", "mp4">> -> << <<"ac3", 6>>, <<"aac", 2>> >>
      [] fn = <<"show", "mkv">>  -> << <<"eac3", 6>> >>
      [] fn = <<"Movie", "MP4">> -> << <<"dts", 6>>, <<"aac", 2>> >>
      [] fn = <<"song", "mp3">> -> << <<"mp3", 2>> >>
      [] Len(fn) = 4 /\ fn[2] # "none" -> << <<fn[2], ChannelCount(fn[3])>> >>
      [] OTHER -> << >>

NoStream == [fn |-> NoFile, kind |-> "none", pos |-> 0]

VideoStream(fn, i) == [fn |-> fn, kind |-> "video", pos |-> i]
AudioStream(fn, i) == [fn |-> fn, kind |-> "audio", pos |-> i]

video_streams(fn) == [i \in 1..Len(VideoCodecs(fn)) |-> VideoStream(fn, i)]
audio_streams(fn) == [i \in 1..Len(AudioCodecs(fn)) |-> AudioStream(fn, i)]

codec(s) ==
    IF s.kind = "video" THEN VideoCodecs(s.fn)[s.pos]
    ELSE AudioCodecs(s.fn)[s.pos][1]

channels(s) == AudioCodecs(s.fn)[s.pos][2]

(***************************************************************************)
(* devices.py: the capability registry.                                    *)
(***************************************************************************)
Device(m, n, h, a) == [manufacturer |-> m, model_name |-> n, h265 |-> h, ac3 |-> a]

devices ==
    { Device("Unknown manufacturer", "Chromecast", FALSE, FALSE),
      Device("Unknown manufacturer", "Chromecast Ultra", TRUE, TRUE),
      Device("Unknown manufacturer", "Google Home Mini", FALSE, FALSE),
      Device("Google", "Google TV Streamer", TRUE, TRUE),
      Device("Google Inc.", "Chromecast", FALSE, FALSE),
      Device("Google Inc.", "Chromecast Ultra", TRUE, TRUE),
      Device("Sony", "BRAVIA", TRUE, TRUE),
      Device("TCL", "Chromecast", TRUE, TRUE),
      Device("Philips", "Chromecast", TRUE, TRUE),
      Device("Sharp", "Chromecast", TRUE, TRUE),
      Device("Toshiba", "Chromecast", TRUE, TRUE),
      Device("Hisense", "Chromecast", TRUE, TRUE),
      Device("Xiaomi", "Mi TV", TRUE, TRUE),
      Device("VIZIO", "P75-F1", TRUE, TRUE) }

\* get_device looking at the model name only
get_device_by_model(manufacturer, model_name) ==
    LET found == { d \in devices : d.model_name = model_name }
    IN  IF found # {} THEN CHOOSE d \in found : TRUE
        ELSE Device("Unknown manufacturer", "Default", FALSE, FALSE)

get_device(manufacturer, model_name) ==
    LET found == { d \in devices : /\ d.manufacturer = manufacturer
                                   /\ d.model_name = model_name }
    IN  IF found # {} THEN CHOOSE d \in found : TRUE
        ELSE Device("Unknown manufacturer", "Default", FALSE, FALSE)

(***************************************************************************)
(* The discovered Chromecasts the user can pick from.                      *)
(***************************************************************************)
Cast(m, n, t) == [manufacturer |-> m, model_name |-> n, cast_type |-> t]

NoCast == Cast("", "", "none")

Casts == { Cast("Google Inc.", "Chromecast", "cast"),
           Cast("Google Inc.", "Chromecast Ultra", "cast") }

\* Every record of the registry and some identities that are not in it,
\* each as a video device, an audio-only device and a group.
PlanCasts ==
    { Cast(d.manufacturer, d.model_name, t) :
        d \in devices, t \in {"cast", "audio", "group"} }
    \cup { Cast(id[1], id[2], t) :
             id \in { <<"Google", "Chromecast">>,
                      <<"Google Inc.", "chromecast ultra">>,
                      <<"Sony", "Chromecast Ultra">>,
                      <<"Unknown manufacturer", "Default">> },
             t \in {"cast", "audio", "group"} }

(***************************************************************************)
(* transcoder.py: the planner part of Transcoder.__init__.                 *)
(***************************************************************************)
\* can_play_video_codec without the test of the cast type
can_play_video_codec_any_type(c, video_codec) ==
    LET device == get_device(c.manufacturer, c.model_name)
    IN  IF device.h265 THEN video_codec \in {"h264", "h265", "hevc"}
        ELSE video_codec \in {"h264"}

can_play_video_codec(c, video_codec) ==
    LET device == get_device(c.manufacturer, c.model_name)
        h265 == IF c.cast_type = "audio" THEN FALSE ELSE device.h265
    IN  IF h265 THEN video_codec \in {"h264", "h265", "hevc"}
        ELSE video_codec \in {"h264"}

\* can_play_audio_stream taking eac3 as playable where ac3 is
can_play_audio_stream_eac3(c, stream) ==
    LET device == get_device(c.manufacturer, c.model_name)
    IN  IF stream = NoStream THEN TRUE
        ELSE IF device.ac3 THEN codec(stream) \in {"aac", "mp3", "ac3", "eac3"}
        ELSE codec(stream) \in {"aac", "mp3"}

can_play_audio_stream(c, stream) ==
    LET device == get_device(c.manufacturer, c.model_name)
    IN  IF stream = NoStream THEN TRUE
        ELSE IF device.ac3 THEN codec(stream) \in {"aac", "mp3", "ac3"}
        ELSE codec(stream) \in {"aac", "mp3"}

\* transcode_container taking mkv for a container that needs no remux
transcode_container_mkv(cont) == cont \notin {"mp4", "aac", "mp3", "wav", "mkv"}

\* FileMetadata.container: None until _parse has run (main.py:156, 176)
container(fn, ready) == IF ready THEN Extension(fn) ELSE "None"

transcode_container(cont) == cont \notin {"mp4", "aac", "mp3", "wav"}

\* transcode_audio_to with ac3 for two channels too
transcode_audio_to_stereo(c, as) ==
    LET device == get_device(c.manufacturer, c.model_name)
    IN  IF device.ac3 /\ as # NoStream /\ channels(as) > 1 THEN "ac3" ELSE "mp3"

\* lines 80-84: the audio codec to encode to
transcode_audio_to(c, as) ==
    LET device == get_device(c.manufacturer, c.model_name)
    IN  IF device.ac3 /\ as # NoStream /\ channels(as) > 2 THEN "ac3" ELSE "mp3"

\* lines 86-104: the -c:a and -c:v arguments of the encoder's command line;
\* there is no -c:a without an audio stream, and no command without
\* transcode
NoCmd == [c_a |-> "none", c_v |-> "none"]

transcode_cmd(c, as, tv, ta) ==
    [ c_a |-> IF as = NoStream THEN "absent"
              ELSE IF ta THEN transcode_audio_to(c, as) ELSE "copy",
      c_v |-> IF tv THEN "h264" ELSE "copy" ]

\* The Transcoder object right after __init__; path is what mkstemp returned.
Transcoder(c, fn, cont, vs, as, path) ==
    LET tv == ~can_play_video_codec(c, codec(vs))
        ta == ~can_play_audio_stream(c, as)
        t  == transcode_container(cont) \/ tv \/ ta
    IN  [ source_fn |-> fn,
          device |-> get_device(c.manufacturer, c.model_name),
          transcode_cmd |-> IF t THEN transcode_cmd(c, as, tv, ta) ELSE NoCmd,
          video_stream |-> vs,
          audio_stream |-> as,
          cast |-> c,
          transcode |-> t,
          transcode_video |-> tv,
          transcode_audio |-> ta,
          trans_fn |-> IF t THEN path ELSE 0,
          progress_bytes |-> 0,
          progress_seconds |-> 0,
          done |-> ~t,
          destroyed |-> FALSE,
          returncode |-> "None",
          finalized |-> FALSE,
          ev_completed |-> IF t THEN 0 ELSE 1,
          ev_error |-> 0,
          ev_progress |-> << >> ]

\* the encoder binary, a file on the disk beside the temp paths 1..NPaths
ffmpeg == NPaths + 1

\* Popen (transcoder.py:109-111): the process exists, nothing written yet.
\* size is the number of kilobytes the process has written to its output file.
NoProc == [st |-> "none", code |-> "None", signalled |-> FALSE, out |-> << >>,
           size |-> 0]
Popen  == [st |-> "starting", code |-> "None", signalled |-> FALSE, out |-> << >>,
           size |-> 0]

NoMonitor == [pc |-> "none"]

JobIds == 1..Len(jobs)

Alive(p) == p.st \in {"starting", "writing"}

\* Python truth value of Popen.returncode
Truthy(rc) == rc \notin {"None", "0"}

(***************************************************************************)
(* Transcoder.destroy (transcoder.py:188-193) on the job objects J, the    *)
(* processes P and the disk D, packed as a world record.  terminate() only *)
(* sends the signal: the process exits later, on its own step.             *)
(***************************************************************************)
World(J, P, D) == [jobs |-> J, proc |-> P, disk |-> D]

\* destroy with the poll() test of line 190 left out: terminate() is called
\* on every process, exited or not
destroy_unguarded(W, j) ==
    LET job == W.jobs[j]
        polled == IF job.transcode /\ W.proc[j].st = "exited"
                  THEN W.proc[j].code ELSE job.returncode
    IN  World([W.jobs EXCEPT ![j].destroyed = TRUE, ![j].returncode = polled],
              IF job.transcode THEN [W.proc EXCEPT ![j].signalled = TRUE]
              ELSE W.proc,
              IF job.trans_fn # 0 /\ job.trans_fn \in W.disk
              THEN W.disk \ {job.trans_fn} ELSE W.disk)

destroy(W, j) ==
    LET job == W.jobs[j]
        running == job.transcode /\ Alive(W.proc[j])
        polled == IF job.transcode /\ W.proc[j].st = "exited"
                  THEN W.proc[j].code ELSE job.returncode
    IN  World([W.jobs EXCEPT ![j].destroyed = TRUE, ![j].returncode = polled],
              IF running THEN [W.proc EXCEPT ![j].signalled = TRUE] ELSE W.proc,
              IF job.trans_fn # 0 /\ job.trans_fn \in W.disk
              THEN W.disk \ {job.trans_fn} ELSE W.disk)

RECURSIVE destroy_all(_, _)
destroy_all(W, S) ==
    IF S = {} THEN W
    ELSE LET j == CHOOSE x \in S : TRUE
         IN  destroy_all(destroy(W, j), S \ {j})

(***************************************************************************)
(* Transcoder.__del__ (transcoder.py:195-196): CPython runs it when the    *)
(* last reference to the object goes.  References are the table rows,      *)
(* current_transcoder, the running monitor thread (its target is a bound   *)
(* method) and the local of a request handler.                             *)
(***************************************************************************)
Referenced(j, fd, ct, mn, rq) ==
    \/ \E i \in 1..Len(fd) : fd[i].transcoder = j
    \/ ct = j
    \/ mn[j].pc \notin {"none", "end", "crashed"}
    \/ \E r \in DOMAIN rq : rq[r].job = j

\* Ends an action: W is the world the action produced; the primed references
\* are already set.  Every object left unreferenced is finalized.
__del__(W) ==
    LET dead == { j \in 1..Len(W.jobs) :
                    /\ ~W.jobs[j].finalized
                    /\ ~Referenced(j, files_data', current_transcoder', mon', reqs') }
        marked == [j \in 1..Len(W.jobs) |->
                     IF j \in dead THEN [W.jobs[j] EXCEPT !.finalized = TRUE]
                     ELSE W.jobs[j]]
        W2 == destroy_all(World(marked, W.proc, W.disk), dead)
    IN  /\ jobs' = W2.jobs
        /\ proc' = W2.proc
        /\ disk' = W2.disk

Here == World(jobs, proc, disk)

(***************************************************************************)
(* The encoder process (ffmpeg), seen from outside: it creates its output  *)
(* file, writes progress records to its output pipe, and exits.  A         *)
(* termination signal does not stop it at once.                            *)
(***************************************************************************)
\* the size field of a record: decimal digits followed by a unit, the
\* unit kept as its characters
NumUnit(v, unit) == [k |-> "num", v |-> v, unit |-> unit]
Num(v) == NumUnit(v, <<"k", "B">>)
AbsentSize == [k |-> "absent", v |-> 0, unit |-> << >>]
BadSize == [k |-> "bad", v |-> 0, unit |-> << >>]
Time(h, m, sec) == [k |-> "num", v |-> <<h, m, sec>>]
AbsentTime == [k |-> "absent", v |-> <<0, 0, 0>>]
BadTime == [k |-> "bad", v |-> <<0, 0, 0>>]

ProgressRecords ==
    { [size |-> Num(1), time |-> Time(0, 0, 1)],
      [size |-> NumUnit(262144, <<"K", "i", "B">>), time |-> Time(0, 1, 0)],
      [size |-> AbsentSize, time |-> AbsentTime],
      [size |-> BadSize, time |-> BadTime] }

\* ffmpeg is run without -y: it does not overwrite an existing output file.
ProcCreateFile(j) ==
    /\ proc[j].st = "starting"
    /\ IF jobs[j].trans_fn \in disk
       THEN /\ proc' = [proc EXCEPT ![j].st = "exited", ![j].code = "1"]
            /\ disk' = disk
       ELSE /\ proc' = [proc EXCEPT ![j].st = "writing"]
            /\ disk' = disk \cup {jobs[j].trans_fn}
    /\ UNCHANGED <<coordVars, pendingComplete, jobs, mon, reqs>>

\* the output file only grows: a record never reports a smaller size than
\* an earlier record of the same process
ProcWrite(j, rec) ==
    /\ proc[j].st = "writing"
    /\ Len(proc[j].out) < MaxPipe
    /\ rec.size.k = "num" => rec.size.v >= proc[j].size
    /\ proc' = [proc EXCEPT ![j].out = Append(@, rec),
                            ![j].size = IF rec.size.k = "num" THEN rec.size.v
                                        ELSE @]
    /\ UNCHANGED <<coordVars, pendingComplete, jobs, mon, disk, reqs>>

ProcExit(j, rc) ==
    /\ Alive(proc[j])
    /\ rc = "0" => proc[j].st = "writing"
    /\ proc' = [proc EXCEPT ![j].st = "exited", ![j].code = rc]
    /\ UNCHANGED <<coordVars, pendingComplete, jobs, mon, disk, reqs>>

(***************************************************************************)
(* ffmpeg.py: parse_ffmpeg_time, on the three fields of HH:MM:SS.          *)
(***************************************************************************)
parse_ffmpeg_time(t) == t[1] * 60 * 60 + t[2] * 60 + t[3]

(***************************************************************************)
(* Transcoder.monitor (transcoder.py:152-186), the monitor thread of job j.*)
(* The byte loop is taken one record at a time.  The loop's exit and the   *)
(* tests of lines 179 and 184 are one step: what they read (destroyed, the *)
(* exit of the process) is never changed back by another thread, so every  *)
(* outcome of the three reads taken apart is the outcome of this step at   *)
(* the time of the last read.  The writes that follow the tests (the       *)
(* emits, done = True) are steps of their own.                             *)
(***************************************************************************)
\* str.lower() on the characters of a unit
lower(unit) ==
    [i \in 1..Len(unit) |->
        CASE unit[i] = "K" -> "k"
          [] unit[i] = "I" -> "i"
          [] unit[i] = "B" -> "b"
          [] unit[i] = "M" -> "m"
          [] OTHER -> unit[i]]

\* str.rstrip(chars): trailing characters that are in chars are dropped
RECURSIVE rstrip(_, _)
rstrip(text, chars) ==
    IF text # << >> /\ text[Len(text)] \in chars
    THEN rstrip(SubSeq(text, 1, Len(text) - 1), chars)
    ELSE text

\* the unit with only "kb" given to rstrip
size_left_kb(size) == rstrip(lower(size.unit), {"k", "b"})

\* line 170: what .lower().rstrip("kib") leaves after the digits of the
\* size field; int() accepts the text when nothing is left
size_left(size) == rstrip(lower(size.unit), {"k", "i", "b"})

\* lines 163-175: a carriage-return-terminated record has been read
MonRecord(j) ==
    /\ mon[j].pc = "loop"
    /\ proc[j].out # << >>
    /\ UNCHANGED <<coordVars, pendingComplete, reqs>>
    /\ LET rec == Head(proc[j].out)
           bytes == IF rec.size.k = "absent" THEN 0 ELSE rec.size.v * KiB
           secs == parse_ffmpeg_time(rec.time.v)
       IN  /\ proc' = [proc EXCEPT ![j].out = Tail(@)]
           /\ IF rec.size.k = "bad" \/ size_left(rec.size) # << >>
              THEN \* int() raises ValueError: the thread dies
                   /\ mon' = [mon EXCEPT ![j].pc = "crashed"]
                   /\ __del__(World(jobs, proc', disk))
              ELSE IF rec.time.k = "bad"
              THEN \* float() raises ValueError after progress_bytes was set
                   /\ mon' = [mon EXCEPT ![j].pc = "crashed"]
                   /\ __del__(World([jobs EXCEPT ![j].progress_bytes = bytes],
                                    proc', disk))
              ELSE /\ mon' = [mon EXCEPT ![j].pc = "loop"]
                   \* line 174: progress_updated.emit
                   /\ jobs' = [jobs EXCEPT ![j].progress_bytes = bytes,
                                           ![j].progress_seconds = secs,
                                           ![j].ev_progress = <<bytes, secs>>]
                   /\ disk' = disk

\* lines 176-184 after the loop was left with return code rc
MonTests(j, rc) ==
    /\ UNCHANGED <<coordVars, pendingComplete, reqs>>
    /\ IF Truthy(rc) /\ ~jobs[j].destroyed
       THEN /\ mon' = [mon EXCEPT ![j].pc = "emit_error"]
            /\ jobs' = [jobs EXCEPT ![j].returncode = rc]
            /\ UNCHANGED <<proc, disk>>
       ELSE IF jobs[j].destroyed
       THEN /\ mon' = [mon EXCEPT ![j].pc = "end"]
            /\ __del__(World([jobs EXCEPT ![j].returncode = rc], proc, disk))
       ELSE /\ mon' = [mon EXCEPT ![j].pc = "set_done"]
            /\ jobs' = [jobs EXCEPT ![j].returncode = rc]
            /\ UNCHANGED <<proc, disk>>

\* lines 157-160: read returns b"" and poll() sees the exit; then the tests
MonEof(j) ==
    /\ mon[j].pc = "loop"
    /\ proc[j].out = << >>
    /\ proc[j].st = "exited"
    /\ MonTests(j, proc[j].code)

\* line 156: the loop condition sees destroyed; then the tests
MonGuard(j) ==
    /\ mon[j].pc = "loop"
    /\ jobs[j].destroyed
    /\ MonTests(j, jobs[j].returncode)

\* MonEmitError with the return of line 183 left out: control falls through
\* to the test of line 184
MonEmitError_no_return(j) ==
    /\ mon[j].pc = "emit_error"
    /\ UNCHANGED <<coordVars, pendingComplete, reqs>>
    /\ IF jobs[j].destroyed
       THEN /\ mon' = [mon EXCEPT ![j].pc = "end"]
            /\ __del__(World([jobs EXCEPT ![j].ev_error = 1], proc, disk))
       ELSE /\ mon' = [mon EXCEPT ![j].pc = "set_done"]
            /\ jobs' = [jobs EXCEPT ![j].ev_error = 1]
            /\ UNCHANGED <<proc, disk>>

\* lines 180-183: transcode_error.emit, return
MonEmitError(j) ==
    /\ mon[j].pc = "emit_error"
    /\ mon' = [mon EXCEPT ![j].pc = "end"]
    /\ UNCHANGED <<coordVars, pendingComplete, reqs>>
    /\ __del__(World([jobs EXCEPT ![j].ev_error = 1], proc, disk))

\* line 185: self.done = True
MonSetDone(j) ==
    /\ mon[j].pc = "set_done"
    /\ mon' = [mon EXCEPT ![j].pc = "emit_completed"]
    /\ jobs' = [jobs EXCEPT ![j].done = TRUE]
    /\ UNCHANGED <<coordVars, pendingComplete, proc, disk, reqs>>

\* line 186: transcode_completed.emit(True); the connected lambda
\* (main.py:764-766) is queued for the main thread
MonEmitCompleted(j) ==
    /\ mon[j].pc = "emit_completed"
    /\ mon' = [mon EXCEPT ![j].pc = "end"]
    /\ pendingComplete' = pendingComplete \cup {j}
    /\ UNCHANGED <<coordVars, reqs>>
    /\ __del__(World([jobs EXCEPT ![j].ev_completed = 1], proc, disk))

Monitor(j) ==
    \/ MonGuard(j)
    \/ MonRecord(j)
    \/ MonEof(j)
    \/ MonEmitError(j)
    \/ MonSetDone(j)
    \/ MonEmitCompleted(j)

(***************************************************************************)
(* webserver.py:39-56, GET /media, and Transcoder.wait_for_byte            *)
(* (transcoder.py:138-150) on the handler's thread.                        *)
(***************************************************************************)
ReqIds == 1..MaxReqs

Offsets == {0, buffer + 1, 4 * buffer}

IdleReq(res) == [pc |-> "idle", job |-> 0, offset |-> 0, polls |-> 0,
                 doneAtEntry |-> FALSE, result |-> res]

\* the loop condition with the comparison of line 143 turned around
must_wait_inverted(job, offset) ==
    IF Extension(job.source_fn) = "mp4"
    THEN offset < job.progress_bytes + buffer
    ELSE ~job.done

\* the loop of line 143 taken whatever the source's extension is
must_wait_by_offset(job, offset) ==
    offset > job.progress_bytes + buffer

\* lines 142-149: the condition of the loop the source's extension selects
must_wait(job, offset) ==
    IF Extension(job.source_fn) = "mp4"
    THEN offset > job.progress_bytes + buffer
    ELSE ~job.done

\* wait_for_byte with the test of line 139 left out
wait_for_byte_unchecked(r, offset) ==
    /\ reqs[r].pc = "idle"
    /\ current_transcoder # 0
    /\ reqs' = [reqs EXCEPT ![r] =
                  [pc |-> "loop", job |-> current_transcoder,
                   offset |-> offset, polls |-> 0,
                   doneAtEntry |-> jobs[current_transcoder].done,
                   result |-> "none"]]
    /\ UNCHANGED <<coordVars, pendingComplete, jobs, proc, mon, disk>>

\* webserver.py:46-47 and transcoder.py:139-140: the handler takes the
\* current transcoder and enters wait_for_byte
wait_for_byte(r, offset) ==
    /\ reqs[r].pc = "idle"
    /\ current_transcoder # 0
    /\ LET j == current_transcoder
       IN  reqs' = [reqs EXCEPT ![r] =
                      [pc |-> IF jobs[j].done THEN "returned" ELSE "loop",
                       job |-> j, offset |-> offset, polls |-> 0,
                       doneAtEntry |-> jobs[j].done, result |-> "none"]]
    /\ UNCHANGED <<coordVars, pendingComplete, jobs, proc, mon, disk>>

\* one test of the loop condition, followed by time.sleep(2) when it holds
WaitPoll(r) ==
    /\ reqs[r].pc = "loop"
    /\ IF must_wait(jobs[reqs[r].job], reqs[r].offset)
       THEN reqs' = [reqs EXCEPT ![r].polls =
                       IF @ < MaxPolls THEN @ + 1 ELSE @]
       ELSE reqs' = [reqs EXCEPT ![r].pc = "returned"]
    /\ UNCHANGED <<coordVars, pendingComplete, jobs, proc, mon, disk>>

\* webserver.py:48-53: static_file answers 404 when the file is missing
video(r) ==
    /\ reqs[r].pc = "returned"
    /\ LET job == jobs[reqs[r].job]
           found == job.transcode => job.trans_fn \in disk
       IN  reqs' = [reqs EXCEPT ![r] = IdleReq(IF found THEN "ok" ELSE "error")]
    /\ UNCHANGED <<coordVars, pendingComplete, mon>>
    /\ __del__(Here)

(***************************************************************************)
(* QtCastWindow.closeEvent (main.py:1088-1095).                            *)
(***************************************************************************)
closeEvent ==
    /\ ~closed
    /\ closed' = TRUE
    /\ LET W == destroy_all(Here, { files_data[i].transcoder :
                                       i \in 1..Len(files_data) } \ {0})
       IN  /\ jobs' = W.jobs
           /\ proc' = W.proc
           /\ disk' = W.disk
    /\ UNCHANGED <<cast, files_data, fmds, current_file, current_transcoder,
                   video_stream, audio_stream, audio_combo, pendingUi,
                   pendingComplete, mon, reqs>>

(***************************************************************************)
(* One job on its own: the states right after the first file was queued,   *)
(* probed and selected with a device chosen, and its Transcoder built.     *)
(***************************************************************************)
Paths == 1..NPaths

Row(fn, fmd, t, d) == [fn |-> fn, fmd |-> fmd, transcoder |-> t, duration |-> d]

JobInit ==
    \E fn \in Files, c \in Casts :
        LET job == Transcoder(c, fn, container(fn, TRUE), video_streams(fn)[1],
                              audio_streams(fn)[1], 1)
        IN  /\ cast = c
            /\ files_data = << Row(fn, 1, 1, TRUE) >>
            /\ fmds = << [fn |-> fn, ready |-> TRUE, pc |-> "done",
                          index |-> 0, existing |-> 0] >>
            /\ current_file = fn
            /\ current_transcoder = 1
            /\ video_stream = video_streams(fn)[1]
            /\ audio_stream = audio_streams(fn)[1]
            /\ audio_combo = 1
            /\ pendingUi = {}
            /\ pendingComplete = {}
            /\ closed = FALSE
            /\ jobs = << job >>
            /\ proc = << IF job.transcode THEN Popen ELSE NoProc >>
            /\ mon = << IF job.transcode THEN [pc |-> "loop"] ELSE NoMonitor >>
            /\ disk = {ffmpeg}
            /\ reqs = [r \in ReqIds |-> IdleReq("none")]

Encoder(j) ==
    \/ ProcCreateFile(j)
    \/ \E rec \in ProgressRecords : ProcWrite(j, rec)
    \/ \E rc \in {"0", "1"} : ProcExit(j, rc)

Web(r) ==
    \/ \E offset \in Offsets : wait_for_byte(r, offset)
    \/ WaitPoll(r)
    \/ video(r)

JobNext ==
    \/ Encoder(1)
    \/ Monitor(1)
    \/ \E r \in ReqIds : Web(r)
    \/ closeEvent

\* The threads keep running and the encoder process ends.
JobFair ==
    /\ WF_vars(Monitor(1))
    /\ WF_vars(\E r \in ReqIds : WaitPoll(r) \/ video(r))
    /\ WF_vars(\E rc \in {"0", "1"} : ProcExit(1, rc))

JobSpec == JobInit /\ [][JobNext]_vars /\ JobFair

(***************************************************************************)
(* QtCastWindow (main.py): the job table and the handlers of the main      *)
(* thread.  A handler runs to its end before the next one starts; the      *)
(* other threads (monitors, probers, request handlers) and the encoder     *)
(* processes interleave with the handlers.                                 *)
(***************************************************************************)
Init ==
    /\ cast = NoCast
    /\ files_data = << >>
    /\ fmds = << >>
    /\ current_file = NoFile
    /\ current_transcoder = 0
    /\ video_stream = NoStream
    /\ audio_stream = NoStream
    /\ audio_combo = 0
    /\ pendingUi = {}
    /\ pendingComplete = {}
    /\ closed = FALSE
    /\ jobs = << >>
    /\ proc = << >>
    /\ mon = << >>
    /\ disk = {ffmpeg}
    /\ reqs = [r \in ReqIds |-> IdleReq("none")]

\* what a handler works on: the table, current_transcoder and the jobs;
\* raised is set once an exception has ended the handler
Tables == [files_data |-> files_data, current_transcoder |-> current_transcoder,
           jobs |-> jobs, proc |-> proc, mon |-> mon, disk |-> disk, ok |-> TRUE,
           raised |-> FALSE]

\* first row of the table holding file fn, 0 when there is none
RowOf(fd, fn) ==
    IF \E i \in 1..Len(fd) : fd[i].fn = fn
    THEN CHOOSE i \in 1..Len(fd) :
             fd[i].fn = fn /\ \A k \in 1..(i - 1) : fd[k].fn # fn
    ELSE 0

\* the number of jobs built so far for source file fn
JobsOf(J, fn) == Cardinality({ j \in 1..Len(J) : J[j].source_fn = fn })

\* NewJob with prev_transcoder.destroy() (transcoder.py:46-47) left out
NewJob_keeps_prev(S, index, fmd, c, vs, as, path) ==
    LET row == S.files_data[index]
        old == row.transcoder
        W0 == World(S.jobs, S.proc, S.disk)
        W1 == W0
        job == Transcoder(c, fmds[fmd].fn,
                          container(fmds[fmd].fn, fmds[fmd].ready), vs, as, path)
        new == Len(S.jobs) + 1
    IN  IF JobsOf(S.jobs, job.source_fn) >= MaxJobs
           \/ (job.transcode /\ path \in W1.disk)
        THEN [S EXCEPT !.ok = FALSE]
        ELSE IF job.transcode /\ ffmpeg \notin W1.disk
        THEN \* Popen raises FileNotFoundError (line 109): no Transcoder
             \* object, and the rest of the handler does not run
             [S EXCEPT !.jobs = W1.jobs, !.proc = W1.proc, !.disk = W1.disk,
                       !.raised = TRUE]
        ELSE [ files_data |-> [S.files_data EXCEPT ![index] =
                                  Row(row.fn, fmd, new, row.duration)],
               current_transcoder |-> IF row.fn = current_file THEN new
                                      ELSE S.current_transcoder,
               jobs |-> Append(W1.jobs, job),
               proc |-> Append(W1.proc, IF job.transcode THEN Popen ELSE NoProc),
               mon |-> Append(S.mon, IF job.transcode THEN [pc |-> "loop"]
                                     ELSE NoMonitor),
               disk |-> W1.disk,
               ok |-> S.ok,
               raised |-> FALSE ]

\* Transcoder(...) built inside the lock and stored in row index
\* (main.py:752-771, 789-808); path is the name mkstemp picks
NewJob(S, index, fmd, c, vs, as, path) ==
    LET row == S.files_data[index]
        old == row.transcoder
        W0 == World(S.jobs, S.proc, S.disk)
        W1 == IF old # 0 THEN destroy(W0, old) ELSE W0
        job == Transcoder(c, fmds[fmd].fn,
                          container(fmds[fmd].fn, fmds[fmd].ready), vs, as, path)
        new == Len(S.jobs) + 1
    IN  IF JobsOf(S.jobs, job.source_fn) >= MaxJobs
           \/ (job.transcode /\ path \in W1.disk)
        THEN [S EXCEPT !.ok = FALSE]
        ELSE IF job.transcode /\ ffmpeg \notin W1.disk
        THEN \* Popen raises FileNotFoundError (line 109): no Transcoder
             \* object, and the rest of the handler does not run
             [S EXCEPT !.jobs = W1.jobs, !.proc = W1.proc, !.disk = W1.disk,
                       !.raised = TRUE]
        ELSE [ files_data |-> [S.files_data EXCEPT ![index] =
                                  Row(row.fn, fmd, new, row.duration)],
               current_transcoder |-> IF row.fn = current_file THEN new
                                      ELSE S.current_transcoder,
               jobs |-> Append(W1.jobs, job),
               proc |-> Append(W1.proc, IF job.transcode THEN Popen ELSE NoProc),
               mon |-> Append(S.mon, IF job.transcode THEN [pc |-> "loop"]
                                     ELSE NoMonitor),
               disk |-> W1.disk,
               ok |-> S.ok,
               raised |-> FALSE ]

\* _create_transcoder with the test of lines 748-750 left out
_create_transcoder_unguarded(S, index, fmd, c, vs, as, path) ==
    IF S.raised THEN S
    ELSE IF index > Len(S.files_data)
    THEN [S EXCEPT !.raised = TRUE]
    ELSE NewJob(S, index, fmd, c, vs, as, path)

\* QtCastWindow._create_transcoder (main.py:743-771)
_create_transcoder(S, index, fmd, c, vs, as, path) ==
    IF S.raised THEN S
    ELSE IF index > Len(S.files_data)
    THEN [S EXCEPT !.raised = TRUE]                \* IndexError at line 746
    ELSE LET old == S.files_data[index].transcoder
         IN  IF old # 0 /\ ~S.jobs[old].destroyed THEN S
             ELSE NewJob(S, index, fmd, c, vs, as, path)

\* _create_transcoder_for_file taking the streams shown for the current file
_create_transcoder_for_file_shown(S, index, fmd, c, path) ==
    LET old == S.files_data[index].transcoder
    IN  IF S.raised THEN S
        ELSE IF old # 0 /\ ~S.jobs[old].destroyed THEN S
        ELSE IF video_stream = NoStream THEN S
        ELSE NewJob(S, index, fmd, c, video_stream, audio_stream, path)

\* QtCastWindow._create_transcoder_for_file (main.py:773-808)
_create_transcoder_for_file(S, index, fmd, c, path) ==
    LET old == S.files_data[index].transcoder
        fn == fmds[fmd].fn
        vs == IF Len(video_streams(fn)) > 0 THEN video_streams(fn)[1] ELSE NoStream
        as == IF Len(audio_streams(fn)) > 0 THEN audio_streams(fn)[1] ELSE NoStream
    IN  IF S.raised THEN S
        ELSE IF old # 0 /\ ~S.jobs[old].destroyed THEN S
        ELSE IF vs = NoStream THEN S
        ELSE NewJob(S, index, fmd, c, vs, as, path)

\* the end of a handler: its tables become the state, and objects it left
\* unreferenced are finalized
Commit(S) ==
    /\ S.ok
    /\ files_data' = S.files_data
    /\ current_transcoder' = S.current_transcoder
    /\ mon' = S.mon
    /\ __del__(World(S.jobs, S.proc, S.disk))

\* QtCastWindow.queue_file (main.py:626-663)
queue_file(fn) ==
    /\ ~closed
    /\ RowOf(files_data, fn) = 0
    /\ Len(fmds) < MaxFmds
    /\ LET k == Len(fmds) + 1
           first == Len(files_data) = 0 /\ current_file = NoFile
       IN  /\ fmds' = Append(fmds, [fn |-> fn, ready |-> FALSE, pc |-> "parsing",
                                    index |-> 0, existing |-> 0])
           /\ files_data' = Append(files_data, Row(fn, k, 0, FALSE))
           /\ IF first
              THEN /\ current_file' = fn
                   /\ current_transcoder' = 0
                   /\ video_stream' = NoStream
                   /\ audio_stream' = NoStream
                   /\ pendingUi' = pendingUi \cup {[index |-> 1, fmd |-> k]}
              ELSE UNCHANGED <<current_file, current_transcoder, video_stream,
                               audio_stream, pendingUi>>
    /\ UNCHANGED <<cast, audio_combo, closed, pendingComplete, mon, reqs>>
    /\ __del__(Here)

\* FileMetadata._parse (main.py:164-231): the prober finishes
_parse(k) ==
    /\ fmds[k].pc = "parsing"
    /\ fmds' = [fmds EXCEPT ![k].ready = TRUE, ![k].pc = "callback"]
    /\ UNCHANGED <<cast, files_data, current_file, current_transcoder,
                   video_stream, audio_stream, audio_combo, pendingUi, closed,
                   pendingComplete, jobs, proc, mon, disk, reqs>>

\* on_metadata_ready (main.py:649-652), on the prober's thread: the row of
\* the file is looked up and its transcoder read
on_metadata_ready_read(k) ==
    /\ fmds[k].pc = "callback"
    /\ LET i == RowOf(files_data, fmds[k].fn)
       IN  fmds' = IF i = 0 THEN [fmds EXCEPT ![k].pc = "done"]
                   ELSE [fmds EXCEPT ![k].pc = "write", ![k].index = i,
                             ![k].existing = files_data[i].transcoder]
    /\ UNCHANGED <<cast, files_data, current_file, current_transcoder,
                   video_stream, audio_stream, audio_combo, pendingUi, closed,
                   pendingComplete, jobs, proc, mon, disk, reqs>>

\* on_metadata_ready (main.py:654): the row is written back, without the lock
on_metadata_ready(k) ==
    /\ fmds[k].pc = "write"
    /\ fmds' = [fmds EXCEPT ![k].pc = "done", ![k].index = 0, ![k].existing = 0]
    /\ files_data' =
          IF fmds[k].index <= Len(files_data)
          THEN [files_data EXCEPT ![fmds[k].index] =
                   Row(fmds[k].fn, k, fmds[k].existing, TRUE)]
          ELSE files_data
    /\ UNCHANGED <<cast, current_file, current_transcoder, video_stream,
                   audio_stream, audio_combo, pendingUi, closed,
                   pendingComplete, mon, reqs>>
    /\ __del__(Here)

\* del self.files_data[row] for every selected row (main.py:668-670)
RECURSIVE remove_rows(_, _, _)
remove_rows(fd, rows, i) ==
    IF i > Len(fd) THEN << >>
    ELSE (IF i \in rows THEN << >> ELSE << fd[i] >>) \o remove_rows(fd, rows, i + 1)

\* QtCastWindow.remove_selected_files (main.py:665-670)
remove_selected_files(rows) ==
    /\ ~closed
    /\ rows # {}
    /\ rows \subseteq 1..Len(files_data)
    /\ files_data' = remove_rows(files_data, rows, 1)
    /\ UNCHANGED <<cast, fmds, current_file, current_transcoder, video_stream,
                   audio_stream, audio_combo, pendingUi, closed,
                   pendingComplete, mon, reqs>>
    /\ __del__(Here)

\* QtCastWindow.select_file (main.py:676-695); _load_file_data is started
select_file(index) ==
    /\ ~closed
    /\ index \in 1..Len(files_data)
    /\ current_file' = files_data[index].fn
    /\ current_transcoder' = files_data[index].transcoder
    /\ video_stream' = NoStream
    /\ audio_stream' = NoStream
    /\ pendingUi' = pendingUi \cup {[index |-> index, fmd |-> files_data[index].fmd]}
    /\ UNCHANGED <<cast, files_data, fmds, audio_combo, closed,
                   pendingComplete, mon, reqs>>
    /\ __del__(Here)

HasStreams(fn) == Len(video_streams(fn)) > 0 /\ Len(audio_streams(fn)) > 0

\* QtCastWindow.on_audio_changed (main.py:830-840), on the tables of a handler
audio_changed(S, c, vs, as, path) ==
    LET i == RowOf(S.files_data, current_file)
    IN  IF c # NoCast /\ i # 0
        THEN _create_transcoder(S, i, S.files_data[i].fmd, c, vs, as, path)
        ELSE S

\* QtCastWindow._update_file_ui (main.py:704-741), delivered on the main
\* thread once _load_file_data has seen fmd.ready.  Filling the empty
\* audio_combo makes its first pair current, which runs on_audio_changed.
_update_file_ui(index, fmd) ==
    /\ [index |-> index, fmd |-> fmd] \in pendingUi
    /\ fmds[fmd].ready
    /\ pendingUi' = pendingUi \ {[index |-> index, fmd |-> fmd]}
    /\ LET fn == fmds[fmd].fn
           vs == IF HasStreams(fn) THEN video_streams(fn)[1] ELSE video_stream
           as == IF HasStreams(fn) THEN audio_streams(fn)[1] ELSE audio_stream
       IN  /\ audio_combo' = IF HasStreams(fn) THEN fmd ELSE 0
           /\ video_stream' = vs
           /\ audio_stream' = as
           /\ UNCHANGED <<cast, fmds, current_file, closed, pendingComplete, reqs>>
           /\ \E p1, p2 \in Paths :
                 LET S1 == IF HasStreams(fn)
                           THEN audio_changed(Tables, cast, vs, as, p1)
                           ELSE Tables
                     S2 == IF cast # NoCast /\ vs # NoStream
                           THEN _create_transcoder(S1, index, fmd, cast, vs, as, p2)
                           ELSE S1
                 IN  Commit(S2)

\* QtCastWindow.on_chromecast_selected (main.py:494-526)
on_chromecast_selected(c) ==
    /\ ~closed
    /\ cast' = c
    /\ UNCHANGED <<fmds, current_file, video_stream, audio_stream, audio_combo,
                   pendingUi, closed, pendingComplete, reqs>>
    /\ LET i == RowOf(files_data, current_file)
       IN  \E path \in Paths :
               Commit(IF /\ current_file # NoFile
                         /\ video_stream # NoStream
                         /\ i # 0
                         /\ fmds[files_data[i].fmd].ready
                      THEN _create_transcoder(Tables, i, files_data[i].fmd, c,
                                              video_stream, audio_stream, path)
                      ELSE Tables)

\* QtCastWindow.on_audio_changed (main.py:830-840): the user picks the pair
\* (vs, as) among those audio_combo holds
on_audio_changed(vs, as) ==
    /\ ~closed
    /\ audio_combo # 0
    /\ vs \in { video_streams(fmds[audio_combo].fn)[i] :
                  i \in 1..Len(video_streams(fmds[audio_combo].fn)) }
    /\ as \in { audio_streams(fmds[audio_combo].fn)[i] :
                  i \in 1..Len(audio_streams(fmds[audio_combo].fn)) }
    /\ video_stream' = vs
    /\ audio_stream' = as
    /\ UNCHANGED <<cast, fmds, current_file, audio_combo, pendingUi, closed,
                   pendingComplete, reqs>>
    /\ \E path \in Paths : Commit(audio_changed(Tables, cast, vs, as, path))

\* prep_next_transcode taking the last row that qualifies, not the first
prep_next_transcode_last(S, path) ==
    LET fd == S.files_data
        cur == RowOf(fd, current_file)
        started == /\ cur # 0
                   /\ fd[cur].transcoder # 0
                   /\ S.jobs[fd[cur].transcoder].done
        next == { i \in (cur + 1)..Len(fd) :
                    fd[i].transcoder = 0 /\ fmds[fd[i].fmd].ready }
    IN  IF cast = NoCast \/ current_file = NoFile \/ ~started \/ next = {}
        THEN S
        ELSE LET i == CHOOSE i \in next : \A k \in next : i >= k
             IN  _create_transcoder_for_file(S, i, fd[i].fmd, cast, path)

\* QtCastWindow.prep_next_transcode (main.py:1040-1054)
prep_next_transcode(S, path) ==
    LET fd == S.files_data
        cur == RowOf(fd, current_file)
        started == /\ cur # 0
                   /\ fd[cur].transcoder # 0
                   /\ S.jobs[fd[cur].transcoder].done
        next == { i \in (cur + 1)..Len(fd) :
                    fd[i].transcoder = 0 /\ fmds[fd[i].fmd].ready }
    IN  IF cast = NoCast \/ current_file = NoFile \/ ~started \/ next = {}
        THEN S
        ELSE LET i == CHOOSE i \in next : \A k \in next : i <= k
             IN  _create_transcoder_for_file(S, i, fd[i].fmd, cast, path)

\* QtCastWindow._on_transcode_complete (main.py:818-824), the queued slot of
\* job j's transcode_completed
_on_transcode_complete(j) ==
    /\ j \in pendingComplete
    /\ pendingComplete' = pendingComplete \ {j}
    /\ UNCHANGED <<cast, fmds, current_file, video_stream, audio_stream,
                   audio_combo, pendingUi, closed, reqs>>
    /\ \E path \in Paths : Commit(prep_next_transcode(Tables, path))

\* QtCastWindow.monitor_cast_status (main.py:986-1010), the timer tick while
\* the device reports PLAYING
monitor_cast_status ==
    /\ ~closed
    /\ cast # NoCast
    /\ current_transcoder # 0
    /\ UNCHANGED <<cast, fmds, current_file, video_stream, audio_stream,
                   audio_combo, pendingUi, closed, pendingComplete, reqs>>
    /\ \E path \in Paths : Commit(prep_next_transcode(Tables, path))

\* the files the user queues: one whose container is served as it is and
\* one whose container is always transcoded
QueuedFiles == { <<"movie", "mp4">>, <<"show", "mkv">> }

\* The handlers of the main thread, the probing threads, and each job's
\* encoder and monitor thread.  No handler of QtCastWindow reads a job's
\* progress or a request, so progress records and GET /media requests are
\* left to JobSpec and RemoveSpec.
Next ==
    \/ \E fn \in QueuedFiles : queue_file(fn)
    \/ \E k \in 1..Len(fmds) : _parse(k)
    \/ \E k \in 1..Len(fmds) : on_metadata_ready_read(k)
    \/ \E k \in 1..Len(fmds) : on_metadata_ready(k)
    \/ \E rows \in SUBSET (1..Len(files_data)) : remove_selected_files(rows)
    \/ \E index \in 1..Len(files_data) : select_file(index)
    \/ \E u \in pendingUi : _update_file_ui(u.index, u.fmd)
    \/ \E c \in Casts : on_chromecast_selected(c)
    \/ \E vs \in {VideoStream(fn, 1) : fn \in Files},
          as \in {AudioStream(fn, i) : fn \in Files, i \in 1..2} :
            on_audio_changed(vs, as)
    \/ \E j \in JobIds : _on_transcode_complete(j)
    \/ monitor_cast_status
    \/ closeEvent
    \/ \E j \in JobIds : ProcCreateFile(j)
    \/ \E j \in JobIds, rc \in {"0", "1"} : ProcExit(j, rc)
    \/ \E j \in JobIds : MonGuard(j)
    \/ \E j \in JobIds : MonEof(j)
    \/ \E j \in JobIds : MonEmitError(j)
    \/ \E j \in JobIds : MonSetDone(j)
    \/ \E j \in JobIds : MonEmitCompleted(j)

Spec == Init /\ [][Next]_vars

(***************************************************************************)
(* The queue with several files: a device has been chosen, the files have  *)
(* been queued and probed, and the user has just clicked on one of them    *)
(* (select_file has run, its _update_file_ui is still to come).  From      *)
(* there the user clicks on files and the encoders run to completion;      *)
(* prefetch (prep_next_transcode) works on this queue.                     *)
(***************************************************************************)
\* the orders in which the files were queued; silent.mkv has a video stream
\* and no audio stream
QueueOrders == { << <<"movie", "mp4">>, <<"show", "mkv">>, <<"Movie", "MP4">> >>,
                 << <<"movie", "mp4">>, <<"silent", "mkv">> >> }

QueueInit ==
    \E order \in QueueOrders, d \in Casts : \E c \in 1..Len(order) :
        /\ cast = d
        /\ files_data = [k \in 1..Len(order) |-> Row(order[k], k, 0, TRUE)]
        /\ fmds = [k \in 1..Len(order) |->
                      [fn |-> order[k], ready |-> TRUE, pc |-> "done",
                       index |-> 0, existing |-> 0]]
        /\ current_file = order[c]
        /\ current_transcoder = 0
        /\ video_stream = NoStream
        /\ audio_stream = NoStream
        /\ audio_combo = 0
        /\ pendingUi = {[index |-> c, fmd |-> c]}
        /\ pendingComplete = {}
        /\ closed = FALSE
        /\ jobs = << >>
        /\ proc = << >>
        /\ mon = << >>
        /\ disk = {ffmpeg}
        /\ reqs = [r \in ReqIds |-> IdleReq("none")]

\* The user clicks on a file once the click before has been shown.
QueueNext ==
    \/ \E index \in 1..Len(files_data) : pendingUi = {} /\ select_file(index)
    \/ \E u \in pendingUi : _update_file_ui(u.index, u.fmd)
    \/ \E j \in JobIds : _on_transcode_complete(j)
    \/ monitor_cast_status
    \/ \E j \in JobIds : ProcCreateFile(j)
    \/ \E j \in JobIds : ProcExit(j, "0")
    \/ \E j \in JobIds : MonEof(j)
    \/ \E j \in JobIds : MonSetDone(j)
    \/ \E j \in JobIds : MonEmitCompleted(j)

QueueSpec == QueueInit /\ [][QueueNext]_vars

(***************************************************************************)
(* Rows removed from a queue of two files while a click is being shown and *)
(* while the server answers requests: a device has been chosen, both files *)
(* have been probed, and the user has just clicked on one of them.         *)
(***************************************************************************)
RemoveInit ==
    \E d \in Casts : \E c \in 1..2 :
        LET order == << <<"movie", "mp4">>, <<"show", "mkv">> >>
        IN  /\ cast = d
            /\ files_data = [k \in 1..2 |-> Row(order[k], k, 0, TRUE)]
            /\ fmds = [k \in 1..2 |->
                          [fn |-> order[k], ready |-> TRUE, pc |-> "done",
                           index |-> 0, existing |-> 0]]
            /\ current_file = order[c]
            /\ current_transcoder = 0
            /\ video_stream = NoStream
            /\ audio_stream = NoStream
            /\ audio_combo = 0
            /\ pendingUi = {[index |-> c, fmd |-> c]}
            /\ pendingComplete = {}
            /\ closed = FALSE
            /\ jobs = << >>
            /\ proc = << >>
            /\ mon = << >>
            /\ disk = {ffmpeg}
            /\ reqs = [r \in ReqIds |-> IdleReq("none")]

RemoveNext ==
    \/ \E rows \in SUBSET (1..Len(files_data)) : remove_selected_files(rows)
    \/ \E index \in 1..Len(files_data) : pendingUi = {} /\ select_file(index)
    \/ \E u \in pendingUi : _update_file_ui(u.index, u.fmd)
    \/ \E r \in ReqIds : Web(r)
    \/ \E j \in JobIds : _on_transcode_complete(j)
    \/ \E j \in JobIds : ProcCreateFile(j)
    \/ \E j \in JobIds : ProcExit(j, "0")
    \/ \E j \in JobIds : MonEof(j)
    \/ \E j \in JobIds : MonEmitError(j)
    \/ \E j \in JobIds : MonSetDone(j)
    \/ \E j \in JobIds : MonEmitCompleted(j)

RemoveSpec == RemoveInit /\ [][RemoveNext]_vars

(***************************************************************************)
(* Playback of a queue that holds an audio-only file: song.mp3 has an      *)
(* audio stream and no video stream.  A device has been chosen, the files  *)
(* have been probed and the user has just clicked on one of them.  The     *)
(* encoders run to their end, queued slots are delivered, and the status   *)
(* timer keeps ticking while the device plays; the user clicks or not.     *)
(***************************************************************************)
SkipInit ==
    \E d \in Casts : \E c \in 1..3 :
        LET order == << <<"movie", "mp4">>, <<"song", "mp3">>, <<"show", "mkv">> >>
        IN  /\ cast = d
            /\ files_data = [k \in 1..3 |-> Row(order[k], k, 0, TRUE)]
            /\ fmds = [k \in 1..3 |->
                          [fn |-> order[k], ready |-> TRUE, pc |-> "done",
                           index |-> 0, existing |-> 0]]
            /\ current_file = order[c]
            /\ current_transcoder = 0
            /\ video_stream = NoStream
            /\ audio_stream = NoStream
            /\ audio_combo = 0
            /\ pendingUi = {[index |-> c, fmd |-> c]}
            /\ pendingComplete = {}
            /\ closed = FALSE
            /\ jobs = << >>
            /\ proc = << >>
            /\ mon = << >>
            /\ disk = {ffmpeg}
            /\ reqs = [r \in ReqIds |-> IdleReq("none")]

SkipNext ==
    \/ \E index \in 1..Len(files_data) : pendingUi = {} /\ select_file(index)
    \/ \E u \in pendingUi : _update_file_ui(u.index, u.fmd)
    \/ \E j \in JobIds : _on_transcode_complete(j)
    \/ monitor_cast_status
    \/ \E j \in JobIds : ProcCreateFile(j)
    \/ \E j \in JobIds : ProcExit(j, "0")
    \/ \E j \in JobIds : MonEof(j)
    \/ \E j \in JobIds : MonSetDone(j)
    \/ \E j \in JobIds : MonEmitCompleted(j)

SkipFair ==
    /\ WF_vars(\E u \in pendingUi : _update_file_ui(u.index, u.fmd))
    /\ WF_vars(\E j \in JobIds : _on_transcode_complete(j))
    /\ WF_vars(monitor_cast_status)
    /\ WF_vars(\E j \in JobIds : ProcCreateFile(j))
    /\ WF_vars(\E j \in JobIds : ProcExit(j, "0"))
    /\ WF_vars(\E j \in JobIds : MonEof(j) \/ MonSetDone(j) \/ MonEmitCompleted(j))

SkipSpec == SkipInit /\ [][SkipNext]_vars /\ SkipFair

(***************************************************************************)
(* A file still being probed: movie.mp4 has been queued, probed and shown, *)
(* show.mkv has been queued and its prober has not finished; no device is  *)
(* chosen yet.  The prober may finish or never do so.                      *)
(***************************************************************************)
ProbeInit ==
    LET shown == <<"movie", "mp4">>
        probing == <<"show", "mkv">>
    IN  /\ cast = NoCast
        /\ files_data = << Row(shown, 1, 0, TRUE), Row(probing, 2, 0, FALSE) >>
        /\ fmds = << [fn |-> shown, ready |-> TRUE, pc |-> "done",
                      index |-> 0, existing |-> 0],
                     [fn |-> probing, ready |-> FALSE, pc |-> "parsing",
                      index |-> 0, existing |-> 0] >>
        /\ current_file = shown
        /\ current_transcoder = 0
        /\ video_stream = video_streams(shown)[1]
        /\ audio_stream = audio_streams(shown)[1]
        /\ audio_combo = 1
        /\ pendingUi = {}
        /\ pendingComplete = {}
        /\ closed = FALSE
        /\ jobs = << >>
        /\ proc = << >>
        /\ mon = << >>
        /\ disk = {ffmpeg}
        /\ reqs = [r \in ReqIds |-> IdleReq("none")]

\* The user clicks on a file once the click before has been shown.
ProbeNext ==
    \/ \E c \in Casts : on_chromecast_selected(c)
    \/ \E index \in 1..Len(files_data) : pendingUi = {} /\ select_file(index)
    \/ \E u \in pendingUi : _update_file_ui(u.index, u.fmd)
    \/ \E vs \in {VideoStream(fn, 1) : fn \in Files},
          as \in {AudioStream(fn, i) : fn \in Files, i \in 1..2} :
            on_audio_changed(vs, as)
    \/ \E k \in 1..Len(fmds) : _parse(k)
    \/ \E k \in 1..Len(fmds) : on_metadata_ready_read(k)
    \/ \E k \in 1..Len(fmds) : on_metadata_ready(k)

ProbeSpec == ProbeInit /\ [][ProbeNext]_vars

(***************************************************************************)
(* The encoder cannot be launched: the files have been queued, probed and  *)
(* one of them shown, no device is chosen yet, and the ffmpeg binary is    *)
(* gone from the disk.  What the Qt runtime does with an exception that    *)
(* leaves a handler is not modelled: the handler just ends.                *)
(***************************************************************************)
LaunchInit ==
    \E order \in QueueOrders : \E c \in 1..Len(order) :
        /\ cast = NoCast
        /\ files_data = [k \in 1..Len(order) |-> Row(order[k], k, 0, TRUE)]
        /\ fmds = [k \in 1..Len(order) |->
                      [fn |-> order[k], ready |-> TRUE, pc |-> "done",
                       index |-> 0, existing |-> 0]]
        /\ current_file = order[c]
        /\ current_transcoder = 0
        /\ video_stream = IF HasStreams(order[c])
                          THEN video_streams(order[c])[1] ELSE NoStream
        /\ audio_stream = IF HasStreams(order[c])
                          THEN audio_streams(order[c])[1] ELSE NoStream
        /\ audio_combo = IF HasStreams(order[c]) THEN c ELSE 0
        /\ pendingUi = {}
        /\ pendingComplete = {}
        /\ closed = FALSE
        /\ jobs = << >>
        /\ proc = << >>
        /\ mon = << >>
        /\ disk = {}
        /\ reqs = [r \in ReqIds |-> IdleReq("none")]

\* The user clicks on a file once the click before has been shown.
LaunchNext ==
    \/ \E c \in Casts : on_chromecast_selected(c)
    \/ \E index \in 1..Len(files_data) : pendingUi = {} /\ select_file(index)
    \/ \E u \in pendingUi : _update_file_ui(u.index, u.fmd)
    \/ \E vs \in {VideoStream(fn, 1) : fn \in Files},
          as \in {AudioStream(fn, i) : fn \in Files, i \in 1..2} :
            on_audio_changed(vs, as)
    \/ monitor_cast_status

LaunchSpec == LaunchInit /\ [][LaunchNext]_vars

(***************************************************************************)
(* The planner on its own: Transcoder.__init__ applied to a device, a      *)
(* probed file and the file's first streams, over every device of          *)
(* PlanCasts and every file of PlanFiles.                                  *)
(***************************************************************************)
PlanInit ==
    \E c \in PlanCasts, fn \in PlanFiles :
        /\ cast = c
        /\ files_data = << Row(fn, 1, 0, TRUE) >>
        /\ fmds = << [fn |-> fn, ready |-> TRUE, pc |-> "done",
                      index |-> 0, existing |-> 0] >>
        /\ current_file = fn
        /\ current_transcoder = 0
        /\ video_stream = video_streams(fn)[1]
        /\ audio_stream = IF Len(audio_streams(fn)) > 0
                          THEN audio_streams(fn)[1] ELSE NoStream
        /\ audio_combo = IF Len(audio_streams(fn)) > 0 THEN 1 ELSE 0
        /\ pendingUi = {}
        /\ pendingComplete = {}
        /\ closed = FALSE
        /\ jobs = << >>
        /\ proc = << >>
        /\ mon = << >>
        /\ disk = {ffmpeg}
        /\ reqs = [r \in ReqIds |-> IdleReq("none")]

\* Transcoder(cast, fmd, video_stream, audio_stream) is built for row 1
\* (main.py:752-771)
Construct ==
    /\ Len(jobs) = 0
    /\ UNCHANGED <<cast, fmds, current_file, video_stream, audio_stream,
                   audio_combo, pendingUi, closed, pendingComplete, reqs>>
    /\ \E path \in Paths :
          Commit(NewJob(Tables, 1, 1, cast, video_stream, audio_stream, path))

PlanNext == Construct

PlanSpec == PlanInit /\ [][PlanNext]_vars

(***************************************************************************)
(* Properties of one job (JobSpec).                                        *)
(***************************************************************************)
Waiting(r) == reqs[r].pc = "loop"

WaitedJob(r) == jobs[reqs[r].job]

IsMp4(job) == Extension(job.source_fn) = "mp4"

\* the encoder exited non-zero and the monitor raised transcode_error
Failed(job) == job.ev_error = 1 /\ ~job.done

\* this step is the return of a wait_for_byte call that went through a loop
Returns(r) == reqs[r].pc = "loop" /\ reqs'[r].pc = "returned"

\* C2: a wait_for_byte call blocked on a job that has become Failed ends,
\* and the request ends with an error response.
C2_FailedJobAbortsWait ==
    \A r \in ReqIds :
        (Waiting(r) /\ Failed(WaitedJob(r)))
            ~> (reqs[r].pc = "idle" /\ reqs[r].result = "error")

\* C3: a wait_for_byte call blocked on a job that gets destroyed ends, and
\* the request ends with an error response.
C3_DestroyedJobAbortsWait ==
    \A r \in ReqIds :
        (Waiting(r) /\ WaitedJob(r).destroyed)
            ~> (reqs[r].pc = "idle" /\ reqs[r].result = "error")

C5_DoneReleasesWait ==
    \A r \in ReqIds :
        (Waiting(r) /\ WaitedJob(r).done) ~> ~Waiting(r)

\* C6: wait_for_byte called on a job whose done flag is set returns at once,
\* without entering a loop and without sleeping, whatever the offset and the
\* source's extension.
C6_DoneReturnsImmediately ==
    \A r \in ReqIds :
        reqs[r].doneAtEntry => (reqs[r].pc = "returned" /\ reqs[r].polls = 0)

\* a call on a finished transcode of an mp4-named source, far beyond the
\* bytes produced
C6_Witness ==
    \E r \in ReqIds :
        /\ reqs[r].doneAtEntry
        /\ reqs[r].pc = "returned"
        /\ IsMp4(WaitedJob(r))
        /\ WaitedJob(r).transcode
        /\ reqs[r].offset > WaitedJob(r).progress_bytes + buffer

\* C10: once destroy() has returned, the job's temp file is not on disk.
C10_NoTempFileAfterDestroy ==
    \A j \in JobIds :
        (jobs[j].destroyed /\ jobs[j].trans_fn # 0) => jobs[j].trans_fn \notin disk

\* the monitor thread of job j is over, or the job never had one
LifetimeOver(j) == mon[j].pc \in {"none", "end"}

\* the terminal events job j has emitted
TerminalEvents(j) == jobs[j].ev_completed + jobs[j].ev_error

\* C13 as stated: a job whose monitor is over has emitted exactly one of
\* transcode_completed and transcode_error.
C13_ExactlyOneTerminalEvent ==
    \A j \in JobIds : LifetimeOver(j) => TerminalEvents(j) = 1

\* C13 amended: a job emits at most one terminal event, never both.
C13_AtMostOneTerminalEvent ==
    \A j \in JobIds : TerminalEvents(j) <= 1

\* a job whose encoder failed: the monitor is over, transcode_error fired
C13_Witness ==
    \E j \in JobIds :
        /\ mon[j].pc = "end"
        /\ jobs[j].ev_error = 1
        /\ jobs[j].ev_completed = 0
        /\ ~jobs[j].destroyed

\* C14: no step emits transcode_error or transcode_completed for a job on
\* which destroy() has been called.
C14_NoEventAfterDestroy ==
    [][\A j \in JobIds :
          jobs[j].destroyed
              => /\ jobs'[j].ev_error = jobs[j].ev_error
                 /\ jobs'[j].ev_completed = jobs[j].ev_completed]_vars

\* C15: the encoder of a job that is not destroyed has exited: a non-zero
\* code leads to transcode_error (unless the job gets destroyed) and done is
\* never true afterwards; code zero leads to done and transcode_completed
\* (unless the job gets destroyed).  JobSpec has the one job 1.
C15_ExitMakesFailedOrDone ==
    \A j \in 1..1 :
        /\ (proc[j].st = "exited" /\ proc[j].code = "1" /\ ~jobs[j].destroyed)
              ~> (jobs[j].ev_error = 1 \/ jobs[j].destroyed)
        /\ (proc[j].st = "exited" /\ proc[j].code = "0" /\ ~jobs[j].destroyed)
              ~> ((jobs[j].done /\ jobs[j].ev_completed = 1) \/ jobs[j].destroyed)
        /\ [](jobs[j].ev_error = 1 => ~jobs[j].done)

\* a progress record the monitor cannot parse
Unparseable(rec) == rec.size.k # "num" \/ rec.time.k # "num"

\* C16: the step that consumes an unparseable progress record changes no
\* field of the job and leaves the monitor in its loop.
C16_BadRecordDiscarded ==
    [][\A j \in JobIds :
          (/\ proc[j].out # << >>
           /\ proc'[j].out = Tail(proc[j].out)
           /\ Unparseable(Head(proc[j].out)))
              => /\ mon'[j].pc = "loop"
                 /\ jobs'[j] = jobs[j]]_vars

\* C29: done never goes back to false, destroyed never goes back to false,
\* a Failed job never becomes done, and done is never set on a job that is
\* already destroyed.
C29_JobStateMonotone ==
    [][\A j \in 1..Len(jobs) :
          /\ j <= Len(jobs')
          /\ jobs[j].done => jobs'[j].done
          /\ jobs[j].destroyed => jobs'[j].destroyed
          /\ jobs[j].ev_error = 1 => (jobs'[j].ev_error = 1 /\ ~jobs'[j].done)
          /\ (jobs[j].destroyed /\ ~jobs[j].done) => ~jobs'[j].done]_vars

\* C30: a wait_for_byte call on a job whose source is not mp4-named, entered
\* while the job was not done, returns only when the job's done flag is set.
C30_NonMp4WaitsForDone ==
    [][\A r \in ReqIds :
          (Returns(r) /\ ~IsMp4(WaitedJob(r))) => jobs'[reqs[r].job].done]_vars

\* a call on an mkv-sourced job that slept, and returned once the job was
\* done, with an offset far beyond the bytes produced
C30_Witness ==
    \E r \in ReqIds :
        /\ reqs[r].pc = "returned"
        /\ ~reqs[r].doneAtEntry
        /\ ~IsMp4(WaitedJob(r))
        /\ reqs[r].polls > 0
        /\ reqs[r].offset > WaitedJob(r).progress_bytes + buffer
        /\ WaitedJob(r).done

(***************************************************************************)
(* Properties of the job table (Spec).                                     *)
(***************************************************************************)
\* the encoder process is still running, the job neither done nor destroyed
Running(j) ==
    /\ jobs[j].transcode
    /\ Alive(proc[j])
    /\ ~jobs[j].done
    /\ ~jobs[j].destroyed

\* C1: in every reachable state each source file has at most one Running job.
C1_OneRunningJobPerSource ==
    \A i, j \in JobIds :
        (i # j /\ Running(i) /\ Running(j))
            => jobs[i].source_fn # jobs[j].source_fn

\* the row on_chromecast_selected hands to _create_transcoder, 0 when the
\* handler does not make the call
EnsuredRow ==
    LET i == RowOf(files_data, current_file)
    IN  IF /\ current_file # NoFile
           /\ video_stream # NoStream
           /\ i # 0
           /\ fmds[files_data[i].fmd].ready
        THEN i ELSE 0

\* C7: a step of _create_transcoder (here called by on_chromecast_selected)
\* changes nothing when the row's job is Running; in every other case the
\* row afterwards holds a newly started job with the given streams, and the
\* prior job, if any, is destroyed.
C7_EnsureJob ==
    [][\A c \in Casts :
          (on_chromecast_selected(c) /\ EnsuredRow # 0)
              => LET i == EnsuredRow
                     old == files_data[i].transcoder
                     new == files_data'[i].transcoder
                 IN  IF old # 0 /\ Running(old)
                     THEN jobs' = jobs /\ files_data' = files_data
                     ELSE /\ new = Len(jobs) + 1
                          /\ Len(jobs') = Len(jobs) + 1
                          /\ jobs'[new].video_stream = video_stream
                          /\ jobs'[new].audio_stream = audio_stream
                          /\ old # 0 => jobs'[old].destroyed]_vars

\* C8: after on_audio_changed with a device selected and the current file
\* in the table, the file's row holds a job whose video_stream and
\* audio_stream are the new selection, and the job it held is destroyed.
C8_AudioChangeReplacesJob ==
    [][\A vs \in {VideoStream(fn, 1) : fn \in Files},
          as \in {AudioStream(fn, i) : fn \in Files, i \in 1..2} :
          (/\ on_audio_changed(vs, as)
           /\ cast # NoCast
           /\ RowOf(files_data, current_file) # 0)
              => LET i == RowOf(files_data, current_file)
                     old == files_data[i].transcoder
                     new == files_data'[i].transcoder
                 IN  /\ new # 0
                     /\ jobs'[new].video_stream = vs
                     /\ jobs'[new].audio_stream = as
                     /\ (old # 0 /\ old # new) => jobs'[old].destroyed]_vars

\* C9: after remove_selected_files the job of every removed row is marked
\* destroyed, its encoder process, if still running, has been signalled, and
\* its temp file is not on disk.
C9_RemoveDestroysJob ==
    [][\A rows \in SUBSET (1..Len(files_data)) :
          remove_selected_files(rows)
              => \A i \in rows :
                    LET t == files_data[i].transcoder
                    IN  t # 0 =>
                          /\ jobs'[t].destroyed
                          /\ (jobs[t].transcode /\ Alive(proc[t]))
                                 => proc'[t].signalled
                          /\ jobs[t].trans_fn \notin disk']_vars

\* C11: a step that builds a job for a row that held a job leaves the
\* previous job destroyed, its process signalled if it still runs, and its
\* temp file off the disk, in the state where the new process has been
\* spawned.
C11_PrevDestroyedBeforeSpawn ==
    [][\A i \in 1..Len(files_data) :
          LET old == files_data[i].transcoder
          IN  (/\ i <= Len(files_data')
               /\ old # 0
               /\ Len(jobs') = Len(jobs) + 1
               /\ files_data'[i].transcoder = Len(jobs) + 1)
                  => /\ jobs'[old].destroyed
                     /\ Alive(proc'[old]) => proc'[old].signalled
                     /\ jobs[old].trans_fn \notin disk']_vars

\* a transcoding job took the row of a transcoding job that closeEvent had
\* destroyed while its encoder was running
C11_Witness ==
    /\ closed
    /\ Len(jobs) = 2
    /\ jobs[1].transcode /\ jobs[1].destroyed /\ proc[1].signalled
    /\ jobs[2].transcode /\ ~jobs[2].destroyed
    /\ \E i \in 1..Len(files_data) : files_data[i].transcoder = 2

\* C12: destroy() applied twice gives what destroy() applied once gives; it
\* leaves an exited process alone, and leaves the disk alone when the temp
\* file is not there.
C12_DestroyIdempotent ==
    \A j \in JobIds :
        LET W1 == destroy(Here, j)
        IN  /\ destroy(W1, j) = W1
            /\ ~Alive(proc[j]) => W1.proc = proc
            /\ jobs[j].trans_fn \notin disk => W1.disk = disk

\* a job that was destroyed by closeEvent, again by the job that replaced
\* it, and again when its last reference went
C12_Witness ==
    /\ closed
    /\ Len(jobs) = 2
    /\ jobs[1].transcode
    /\ jobs[1].finalized
    /\ proc[1].st = "exited"
    /\ \E i \in 1..Len(files_data) : files_data[i].transcoder = 2

\* C20: when on_chromecast_selected has run for device c with a file shown,
\* the job the table holds for the current file carries the plan of the
\* planner for c: transcode_video, transcode_audio and transcode are what
\* Transcoder.__init__ computes for c and the job's streams.
C20_DeviceChangeRecomputesPlan ==
    [][\A c \in Casts :
          (on_chromecast_selected(c) /\ EnsuredRow # 0)
              => LET fn == files_data[EnsuredRow].fn
                     t == files_data'[EnsuredRow].transcoder
                     plan == Transcoder(c, fn, container(fn, TRUE), video_stream,
                                        audio_stream, 1)
                 IN  /\ t # 0
                     /\ jobs'[t].transcode_video = plan.transcode_video
                     /\ jobs'[t].transcode_audio = plan.transcode_audio
                     /\ jobs'[t].transcode = plan.transcode]_vars

(***************************************************************************)
(* Properties of prefetch (QueueSpec).                                     *)
(***************************************************************************)
\* the first row after row cur with ready metadata and no job, 0 if none
NextEntry(fd, cur) ==
    LET next == { i \in (cur + 1)..Len(fd) :
                    fd[i].transcoder = 0 /\ fmds[fd[i].fmd].ready }
    IN  IF next = {} THEN 0 ELSE CHOOSE i \in next : \A k \in next : i <= k

CurrentRow == RowOf(files_data, current_file)

\* job j is marked done in this step (by its monitor, or as it is built)
BecomesDone(j) ==
    /\ j \in 1..Len(jobs')
    /\ jobs'[j].done
    /\ j > Len(jobs) \/ ~jobs[j].done

\* C17: when the job of the current file becomes done while a later row has
\* ready metadata and no job, prefetch is triggered (the job's completion is
\* on its way to _on_transcode_complete), and the delivery of that
\* completion gives the row a job.
C17_DoneTriggersPrefetch ==
    [][\A j \in 1..Len(jobs') :
          LET cur == RowOf(files_data', current_file')
          IN  /\ (/\ BecomesDone(j)
                  /\ cur # 0
                  /\ files_data'[cur].transcoder = j
                  /\ NextEntry(files_data', cur) # 0)
                     => \/ mon'[j].pc = "emit_completed"
                        \/ j \in pendingComplete'
              /\ (/\ j \in 1..Len(jobs)
                  /\ _on_transcode_complete(j)
                  /\ CurrentRow # 0
                  /\ files_data[CurrentRow].transcoder = j
                  /\ jobs[j].done
                  /\ NextEntry(files_data, CurrentRow) # 0)
                     => files_data'[NextEntry(files_data, CurrentRow)].transcoder # 0]_vars

\* row n has no job before this step and has one after it
GetsJob(n) ==
    /\ n \in 1..Len(files_data)
    /\ n \in 1..Len(files_data')
    /\ files_data[n].transcoder = 0
    /\ files_data'[n].transcoder # 0

\* C18 as stated: when the completion of job j is delivered, a row that gets
\* a job is the first row after the row of j's file that has ready metadata
\* and no job.
C18_PrefetchAfterCompleted ==
    [][\A j \in 1..Len(jobs), n \in 1..Len(files_data) :
          (_on_transcode_complete(j) /\ GetsJob(n))
              => n = NextEntry(files_data, RowOf(files_data, jobs[j].source_fn))]_vars

\* C18: when the completion of a job is delivered, a row that gets a job is
\* the first row after the row of the current file that has ready metadata
\* and no job; no other row gets one.
C18_PrefetchAfterCurrent ==
    [][\A j \in 1..Len(jobs), n \in 1..Len(files_data) :
          (_on_transcode_complete(j) /\ GetsJob(n))
              => n = NextEntry(files_data, CurrentRow)]_vars

\* show.mkv has just got its job while movie.mp4 is the current file and
\* shown, its job done, and the job of Movie.MP4, the last row, has completed
\* and its completion has been delivered
C18_Witness ==
    /\ Len(jobs) = 3
    /\ current_file = <<"movie", "mp4">>
    /\ pendingUi = {}
    /\ video_stream = video_streams(current_file)[1]
    /\ CurrentRow = 1
    /\ files_data[1].transcoder # 0
    /\ jobs[files_data[1].transcoder].done
    /\ files_data[2].transcoder = 3
    /\ proc[3].st = "starting"
    /\ files_data[3].transcoder # 0
    /\ jobs[files_data[3].transcoder].ev_completed = 1
    /\ pendingComplete = {}

\* C19: a job built by prefetch (by the delivery of a completion or by the
\* timer tick) for a row has the first video descriptor and the first audio
\* descriptor of that row's file as its streams, and no audio stream when
\* the file has none.
C19_PrefetchUsesOwnStreams ==
    [][\A n \in 1..Len(files_data) :
          (/\ (\E j \in 1..Len(jobs) : _on_transcode_complete(j))
                 \/ monitor_cast_status
           /\ GetsJob(n))
              => LET fn == files_data[n].fn
                     job == jobs'[files_data'[n].transcoder]
                 IN  /\ job.source_fn = fn
                     /\ job.video_stream = video_streams(fn)[1]
                     /\ job.audio_stream = IF Len(audio_streams(fn)) > 0
                                           THEN audio_streams(fn)[1]
                                           ELSE NoStream]_vars

\* show.mkv has just got a job with its own streams while movie.mp4 is the
\* current file, and movie.mp4's streams are the ones shown
C19_Witness ==
    /\ current_file = <<"movie", "mp4">>
    /\ pendingUi = {}
    /\ video_stream = video_streams(current_file)[1]
    /\ audio_stream = audio_streams(current_file)[1]
    /\ Len(jobs) = 2
    /\ files_data[1].transcoder = 1
    /\ jobs[1].done
    /\ files_data[2].transcoder = 2
    /\ proc[2].st = "starting"
    /\ jobs[2].video_stream = video_streams(<<"show", "mkv">>)[1]
    /\ jobs[2].audio_stream = audio_streams(<<"show", "mkv">>)[1]

(***************************************************************************)
(* Properties of the planner (PlanSpec).                                   *)
(***************************************************************************)
\* Transcoder.fn (transcoder.py:119-121)
job_fn(job) == IF job.transcode THEN job.trans_fn ELSE job.source_fn

\* the registry has a record for the identity of cast c
Registered(c) ==
    \E rec \in devices : /\ rec.manufacturer = c.manufacturer
                         /\ rec.model_name = c.model_name

\* C21: transcode_video is false exactly when the video codec is h264, or it
\* is h265 or hevc and the device record has h265 and the device is not an
\* audio-only one.
C21_TranscodeVideo ==
    \A j \in JobIds :
        LET job == jobs[j]
            vc == codec(job.video_stream)
        IN  job.transcode_video
              = ~(\/ vc = "h264"
                  \/ /\ vc \in {"h265", "hevc"}
                     /\ job.device.h265
                     /\ job.cast.cast_type # "audio")

\* an audio-only device whose record has h265 got a job for hevc video
C21_Witness ==
    \E j \in JobIds :
        /\ jobs[j].cast.cast_type = "audio"
        /\ jobs[j].device.h265
        /\ codec(jobs[j].video_stream) = "hevc"
        /\ jobs[j].transcode_video

C23_Eac3DirectStream ==
    \A j \in JobIds :
        LET job == jobs[j]
        IN  (/\ job.device.ac3
             /\ Extension(job.source_fn) = "mkv"
             /\ codec(job.video_stream) = "h264"
             /\ job.audio_stream # NoStream
             /\ codec(job.audio_stream) = "eac3"
             /\ channels(job.audio_stream) = 6)
                => /\ job.transcode
                   /\ ~job.transcode_video
                   /\ ~job.transcode_audio
                   /\ job.transcode_cmd = [c_a |-> "copy", c_v |-> "copy"]

\* C24: the audio codec on the encoder's command line is copy when
\* transcode_audio is false, else ac3 when the device record has ac3 and the
\* stream has more than 2 channels, else mp3.
C24_AudioTargetCodec ==
    \A j \in JobIds :
        LET job == jobs[j]
            as == job.audio_stream
        IN  (job.transcode /\ as # NoStream)
                => job.transcode_cmd.c_a
                     = IF ~job.transcode_audio THEN "copy"
                       ELSE IF job.device.ac3 /\ channels(as) > 2 THEN "ac3"
                       ELSE "mp3"

\* 3-channel dts on a device with ac3 is encoded to ac3
C24_Witness ==
    \E j \in JobIds :
        /\ jobs[j].device.ac3
        /\ jobs[j].audio_stream # NoStream
        /\ codec(jobs[j].audio_stream) = "dts"
        /\ channels(jobs[j].audio_stream) = 3
        /\ jobs[j].transcode_cmd.c_a = "ac3"

\* C25: the plan is a no-op exactly when the container is mp4, aac, mp3 or
\* wav and neither transcode_video nor transcode_audio is set; a no-op job
\* has no process, is done as it is built and serves the source file; any
\* other job has a process and serves its temp path.
C25_NoOpPlan ==
    \A j \in JobIds :
        LET job == jobs[j]
            noop == /\ Extension(job.source_fn) \in {"mp4", "aac", "mp3", "wav"}
                    /\ ~job.transcode_video
                    /\ ~job.transcode_audio
        IN  /\ job.transcode = ~noop
            /\ noop => /\ proc[j] = NoProc
                       /\ mon[j] = NoMonitor
                       /\ job.done
                       /\ job_fn(job) = job.source_fn
            /\ ~noop => /\ proc[j] = Popen
                        /\ ~job.done
                        /\ job.trans_fn \in Paths
                        /\ job_fn(job) = job.trans_fn

\* hevc video and ac3 audio in mp4 on a device with h265 and ac3
C25_Witness ==
    \E j \in JobIds :
        /\ jobs[j].source_fn = <<"hevc", "ac3", "6ch", "mp4">>
        /\ jobs[j].device.h265 /\ jobs[j].device.ac3
        /\ jobs[j].cast.cast_type = "cast"
        /\ ~jobs[j].transcode
        /\ proc[j] = NoProc
        /\ job_fn(jobs[j]) = jobs[j].source_fn

C28_JobOnlyForReadyFile ==
    [][\A j \in (Len(jobs) + 1)..Len(jobs') :
          \A k \in 1..Len(fmds) :
              fmds[k].fn = jobs'[j].source_fn => fmds[k].ready]_vars

(***************************************************************************)
(* Properties of a failed launch (LaunchSpec).                             *)
(***************************************************************************)
\* C27: when on_chromecast_selected has to build a job that needs the
\* encoder and the encoder cannot be launched, the row of the current file
\* gets a job that has raised transcode_error, and the rows of the other
\* files keep their jobs.
C27_LaunchFailureIsJobFailure ==
    [][\A c \in Casts :
          LET i == EnsuredRow
              fn == files_data[i].fn
              plan == Transcoder(c, fn, container(fn, TRUE), video_stream,
                                 audio_stream, 1)
          IN  (/\ on_chromecast_selected(c)
               /\ i # 0
               /\ files_data[i].transcoder = 0
               /\ plan.transcode
               /\ ffmpeg \notin disk)
                  => /\ files_data'[i].transcoder # 0
                     /\ jobs'[files_data'[i].transcoder].ev_error = 1
                     /\ \A k \in 1..Len(files_data) :
                           k # i => files_data'[k] = files_data[k]]_vars

(***************************************************************************)
(* Progress records (JobSpec).                                             *)
(***************************************************************************)
\* a record with a size of N kilobytes, written kB or KiB, and a time
SizedRecord(rec) ==
    /\ rec.size.k = "num"
    /\ rec.size.unit \in { <<"k", "B">>, <<"K", "i", "B">> }
    /\ rec.time.k = "num"

\* the monitor of job j consumes the record at the head of the pipe
Consumes(j) ==
    /\ mon[j].pc = "loop"
    /\ proc[j].out # << >>
    /\ proc'[j].out = Tail(proc[j].out)

\* C34: the step that consumes a record with size N kB (or KiB) and time
\* HH:MM:SS sets progress_bytes to N*1024 and progress_seconds to
\* HH*3600+MM*60+SS, emits progress_updated with those two values and stays
\* in the loop.
C34_RecordSetsProgress ==
    [][\A j \in JobIds :
          (Consumes(j) /\ SizedRecord(Head(proc[j].out)))
              => LET rec == Head(proc[j].out)
                     b == rec.size.v * 1024
                     t == rec.time.v[1] * 3600 + rec.time.v[2] * 60 + rec.time.v[3]
                 IN  /\ jobs'[j].progress_bytes = b
                     /\ jobs'[j].progress_seconds = t
                     /\ jobs'[j].ev_progress = <<b, t>>
                     /\ mon'[j].pc = "loop"]_vars

\* the record size=262144KiB time=00:01:00 has been consumed
C34_Witness ==
    \E j \in JobIds :
        /\ jobs[j].progress_bytes = 268435456
        /\ jobs[j].progress_seconds = 60
        /\ jobs[j].ev_progress = <<268435456, 60>>
        /\ mon[j].pc = "loop"

\* C39: no step makes a job's progress_bytes smaller.
C39_ProgressBytesNonDecreasing ==
    [][\A j \in 1..Len(jobs) :
          /\ j <= Len(jobs')
          /\ jobs'[j].progress_bytes >= jobs[j].progress_bytes]_vars

(***************************************************************************)
(* The table and the metadata callback (Spec).                             *)
(***************************************************************************)
\* C35: the step in which on_metadata_ready writes a row back leaves the
\* transcoder of every row as it was.
C35_MetadataReadyKeepsJob ==
    [][\A k \in 1..Len(fmds) :
          (fmds[k].pc = "write" /\ fmds'[k].pc = "done")
              => \A i \in 1..Len(files_data) :
                     /\ i <= Len(files_data')
                     /\ files_data'[i].transcoder = files_data[i].transcoder]_vars

\* C38: a non-null current_transcoder is the job stored in the row of
\* current_file.
C38_CurrentTranscoderInTable ==
    current_transcoder # 0
        => \E i \in 1..Len(files_data) :
               /\ files_data[i].fn = current_file
               /\ files_data[i].transcoder = current_transcoder

(***************************************************************************)
(* Temp paths and job creation on the queue (QueueSpec).                   *)
(***************************************************************************)
\* C32: two different jobs that are not destroyed and transcode have
\* different output paths.
C32_TempPathUnique ==
    \A i, j \in JobIds :
        (/\ i # j
         /\ jobs[i].transcode /\ ~jobs[i].destroyed
         /\ jobs[j].transcode /\ ~jobs[j].destroyed)
            => jobs[i].trans_fn # jobs[j].trans_fn

\* C33: a step spawns no encoder for the file of a row that holds a job not
\* destroyed, leaves that job in the row, and spawns at most one encoder
\* for any one source file.
C33_OneSpawnPerSlot ==
    [][/\ \A i \in 1..Len(files_data) :
             LET t == files_data[i].transcoder
             IN  (t # 0 /\ ~jobs[t].destroyed)
                     => /\ files_data'[i].transcoder = t
                        /\ \A j \in (Len(jobs) + 1)..Len(jobs') :
                               jobs'[j].source_fn # files_data[i].fn
       /\ \A j, k \in (Len(jobs) + 1)..Len(jobs') :
             j # k => jobs'[j].source_fn # jobs'[k].source_fn]_vars

\* the second file of the queue is current and shown, its row holds the
\* only job ever built for it, and the job of the first file is done: the
\* creation calls of _update_file_ui, and a prefetch for that row if there
\* was one, have met in the same slot and one encoder was spawned
C33_Witness ==
    /\ Len(files_data) >= 2
    /\ current_file = files_data[2].fn
    /\ pendingUi = {}
    /\ audio_combo = files_data[2].fmd
    /\ files_data[2].transcoder # 0
    /\ current_transcoder = files_data[2].transcoder
    /\ ~jobs[files_data[2].transcoder].destroyed
    /\ JobsOf(jobs, files_data[2].fn) = 1
    /\ files_data[1].transcoder # 0
    /\ jobs[files_data[1].transcoder].done

(***************************************************************************)
(* Streams of a job (ProbeSpec).                                           *)
(***************************************************************************)
\* C37: the video and audio descriptors of every job are descriptors of the
\* job's own source file.
C37_StreamsOfOwnFile ==
    \A j \in JobIds :
        /\ jobs[j].video_stream # NoStream
              => jobs[j].video_stream.fn = jobs[j].source_fn
        /\ jobs[j].audio_stream # NoStream
              => jobs[j].audio_stream.fn = jobs[j].source_fn

(***************************************************************************)
(* Rows removed under a pending click or a request (RemoveSpec).           *)
(***************************************************************************)
\* C36: in every row that holds a transcoder, the transcoder's source file
\* and the file of the row's metadata are the file of the row.
C36_RowHoldsOwnJob ==
    \A i \in 1..Len(files_data) :
        files_data[i].transcoder # 0
            => /\ jobs[files_data[i].transcoder].source_fn = files_data[i].fn
               /\ fmds[files_data[i].fmd].fn = files_data[i].fn

\* C31: a step of the GET /media handler changes neither done, destroyed,
\* progress_bytes, progress_seconds nor the output path of any job, nor the
\* number of jobs and processes, nor the table, nor current_transcoder.
C31_HandlerLeavesJobs ==
    [][reqs' # reqs
          => /\ Len(jobs') = Len(jobs)
             /\ Len(proc') = Len(proc)
             /\ \A j \in JobIds :
                   /\ jobs'[j].done = jobs[j].done
                   /\ jobs'[j].destroyed = jobs[j].destroyed
                   /\ jobs'[j].progress_bytes = jobs[j].progress_bytes
                   /\ jobs'[j].progress_seconds = jobs[j].progress_seconds
                   /\ jobs'[j].trans_fn = jobs[j].trans_fn
             /\ files_data' = files_data
             /\ current_transcoder' = current_transcoder]_vars

(***************************************************************************)
(* Prefetch past a file without video (SkipSpec).                          *)
(***************************************************************************)
\* row n is ready and holds no job
Candidate(n) == files_data[n].transcoder = 0 /\ fmds[files_data[n].fmd].ready

\* the first file is current and its job is done; the second file, without
\* a video stream, is the first candidate after it and the third file, with
\* a video stream, is a candidate too
BehindVideoless ==
    /\ current_file = files_data[1].fn
    /\ files_data[1].transcoder # 0
    /\ jobs[files_data[1].transcoder].done
    /\ Candidate(2)
    /\ video_streams(files_data[2].fn) = << >>
    /\ Candidate(3)
    /\ video_streams(files_data[3].fn) # << >>

\* C40: a candidate with a video stream that stands behind a candidate
\* without one eventually holds a job, as long as the current file stays
\* current; and the file without video never holds a job.
C40_VideolessDoesNotBlock ==
    /\ BehindVideoless
          ~> (files_data[3].transcoder # 0 \/ current_file # files_data[1].fn)
    /\ [](files_data[2].transcoder = 0)

====
